---- MODULE Spec2Model ----
(***************************************************************************)
(* EvaP, evap/evaluation/models.py: the lifecycle of the courses of one    *)
(* semester (django_fsm transitions on Course.state), the review gate on   *)
(* text answers, and the archival of a semester (Semester.archive and      *)
(* Course._archive freezing the participant and voter counts).             *)
(*                                                                         *)
(* The variables are the database rows: a course's fields, its participant *)
(* and voter relations and the text answers of its contributions.  A       *)
(* transition, a direct Course._archive and a mutation by the environment  *)
(* each act on a row in one step.  Semester.archive issues two queries     *)
(* (the pre-check of line 72 and the loop's query of line 74) and then one *)
(* _archive per fetched course object, so it is a process of several steps *)
(* that other requests interleave with; one call of it runs at a time.     *)
(*                                                                         *)
(* Spec is the whole semester.  SpecSeq is the lifecycle and archival of   *)
(* its courses with Semester.archive run without interference.  SpecCourse *)
(* is a semester of a single course with every request on it.              *)
(*                                                                         *)
(* SpecSave runs Course.save query by query for several requests, and      *)
(* SpecReview runs review_finished as its guard query and its later save;  *)
(* SpecContrib creates and edits the contributions of courses.  The pure   *)
(* functions have a specification each whose initial states are their      *)
(* inputs: SpecQuorum (can_publish_grades), SpecRecipients                 *)
(* (recipient_list_for_course), SpecSendUser (send_to_user) and SpecNotify *)
(* (send_to_users_in_courses).                                             *)
(***************************************************************************)
EXTENDS Integers, Sequences, FiniteSets, TLC

\* ---------------------------------------------------------------- bounds
NumCourses == 2        \* courses that can be created in the semester
NumUsers == 1          \* users that can be participants and voters
MaxTextAnswers == 1    \* text answers a course can collect
NumProfiles == 2       \* user profiles that notifications look at
NumSavers == 2         \* requests that can be inside Course.save at once
MaxCount == 3          \* largest count and threshold of the quorum
MaxTies == 1           \* delegate and cc ties among the users notified of courses

Courses == 1..NumCourses
Users == 1..NumUsers
AnswerIds == 1..MaxTextAnswers
Profiles == 1..NumProfiles
Savers == 1..NumSavers

\* the null of the two nullable count fields (a count is never negative)
None == -1

\* ------------------------------------------------ lifecycle declarations
States ==
    {"new", "prepared", "lecturerApproved", "approved",
     "inEvaluation", "evaluated", "reviewed", "published"}

Transitions ==
    {"ready_for_contributors", "contributor_approve", "staff_approve",
     "revert_to_new", "evaluation_begin", "evaluation_end",
     "review_finished", "publish", "revoke"}

\* Source with publish also allowed from evaluated, skipping the review
Source_skipsReview(t) ==
    CASE t = "ready_for_contributors" -> {"new", "lecturerApproved"}
      [] t = "contributor_approve"    -> {"prepared"}
      [] t = "staff_approve"          -> {"new", "prepared", "lecturerApproved"}
      [] t = "revert_to_new"          -> {"prepared"}
      [] t = "evaluation_begin"       -> {"approved"}
      [] t = "evaluation_end"         -> {"inEvaluation"}
      [] t = "review_finished"        -> {"evaluated"}
      [] t = "publish"                -> {"evaluated", "reviewed"}
      [] t = "revoke"                 -> {"published"}

\* Source with revert_to_new also allowed from approved
Source_revertFromApproved(t) ==
    CASE t = "ready_for_contributors" -> {"new", "lecturerApproved"}
      [] t = "contributor_approve"    -> {"prepared"}
      [] t = "staff_approve"          -> {"new", "prepared", "lecturerApproved"}
      [] t = "revert_to_new"          -> {"prepared", "approved"}
      [] t = "evaluation_begin"       -> {"approved"}
      [] t = "evaluation_end"         -> {"inEvaluation"}
      [] t = "review_finished"        -> {"evaluated"}
      [] t = "publish"                -> {"reviewed"}
      [] t = "revoke"                 -> {"published"}

\* source= of each @transition decorator
Source(t) ==
    CASE t = "ready_for_contributors" -> {"new", "lecturerApproved"}
      [] t = "contributor_approve"    -> {"prepared"}
      [] t = "staff_approve"          -> {"new", "prepared", "lecturerApproved"}
      [] t = "revert_to_new"          -> {"prepared"}
      [] t = "evaluation_begin"       -> {"approved"}
      [] t = "evaluation_end"         -> {"inEvaluation"}
      [] t = "review_finished"        -> {"evaluated"}
      [] t = "publish"                -> {"reviewed"}
      [] t = "revoke"                 -> {"published"}

\* target= of each @transition decorator
Target(t) ==
    CASE t = "ready_for_contributors" -> "prepared"
      [] t = "contributor_approve"    -> "lecturerApproved"
      [] t = "staff_approve"          -> "approved"
      [] t = "revert_to_new"          -> "new"
      [] t = "evaluation_begin"       -> "inEvaluation"
      [] t = "evaluation_end"         -> "evaluated"
      [] t = "review_finished"        -> "reviewed"
      [] t = "publish"                -> "published"
      [] t = "revoke"                 -> "reviewed"

\* ------------------------------------------------------------------ state
VARIABLES
    course_set,          \* Semester.course_set: the courses created so far
    state,               \* Course.state
    participants,        \* Course.participants
    voters,              \* Course.voters
    participant_count,   \* Course._participant_count (None until archived)
    voter_count,         \* Course._voter_count (None until archived)
    textanswers,         \* per course: answer id -> TextAnswer.checked
    pc,                  \* position of the Semester.archive call in flight
    batch,               \* the courses fetched by the loop of Semester.archive
    last,                \* the last operation called and how it ended
    contributions,       \* per course: its Contribution rows with a contributor
    general,             \* per course: how many rows have contributor=None
    email,               \* UserProfile.email ("" when the user has none)
    delegates,           \* UserProfile.delegates
    cc_users,            \* UserProfile.cc_users
    staff,               \* the users in the group Staff (UserProfile.is_staff)
    saving,              \* per request: its position inside Course.save
    reviewing,           \* courses whose review_finished passed, not yet saved
    outbox               \* the last notification call and what it sent

vars ==
    <<course_set, state, participants, voters, participant_count,
      voter_count, textanswers, pc, batch, last, contributions, general,
      email, delegates, cc_users, staff, saving, reviewing, outbox>>

courseVars == <<state, participant_count, voter_count>>
liveVars == <<participants, voters, textanswers>>
archiveVars == <<pc, batch>>
userVars == <<email, delegates, cc_users, staff>>
callVars == <<saving, reviewing, outbox>>

\* -------------------------------------------------------- Course queries
\* Course.open_textanswer_set: the text answers with checked=False
open_textanswer_set(c) == {a \in DOMAIN textanswers[c] : ~textanswers[c][a]}

\* Course.is_fully_checked
is_fully_checked(c) == open_textanswer_set(c) = {}

\* Course.is_archived, on the fields pcnt and vcnt of a course object.  The
\* results are Python's True and False, or the AssertionError of line 392,
\* raised when only one of the two counts is set.
is_archived_of(pcnt, vcnt) ==
    IF (pcnt = None) # (vcnt = None) THEN "AssertionError"
    ELSE IF pcnt # None THEN "True" ELSE "False"

\* is_archiveable without the test of is_archived
is_archiveable_of_stateOnly(st, pcnt, vcnt) ==
    IF st \in {"new", "published"} THEN "True" ELSE "False"

\* Course.is_archiveable, on the fields of a course object
is_archiveable_of(st, pcnt, vcnt) ==
    IF is_archived_of(pcnt, vcnt) = "AssertionError" THEN "AssertionError"
    ELSE IF is_archived_of(pcnt, vcnt) = "False" /\ st \in {"new", "published"}
         THEN "True" ELSE "False"

is_archived(c) == is_archived_of(participant_count[c], voter_count[c])

is_archiveable(c) ==
    is_archiveable_of(state[c], participant_count[c], voter_count[c])

\* num_participants that always counts the live relation
num_participants_live(c) == Cardinality(participants[c])

\* Course.num_participants
num_participants(c) ==
    IF participant_count[c] # None THEN participant_count[c]
    ELSE Cardinality(participants[c])

\* Course.num_voters
num_voters(c) ==
    IF voter_count[c] # None THEN voter_count[c]
    ELSE Cardinality(voters[c])

\* Course.can_user_vote, the date test left to the caller's clock
can_user_vote(c, u) ==
    state[c] = "inEvaluation" /\ u \in participants[c] /\ u \notin voters[c]

\* ------------------------------------------------------ Semester queries
\* course_set.first(): the first course in Meta.ordering
first_course == CHOOSE c \in course_set : \A d \in course_set : c <= d

\* is_archiveable that looks at the first course only
semester_is_archiveable_first ==
    IF course_set = {} THEN "True" ELSE is_archiveable(first_course)

\* Semester.is_archiveable: all() over the courses of the semester
semester_is_archiveable ==
    IF \E c \in course_set : is_archiveable(c) = "AssertionError"
    THEN "AssertionError"
    ELSE IF \A c \in course_set : is_archiveable(c) = "True"
         THEN "True" ELSE "False"

\* is_archived without the assertion: the answer of the first course
semester_is_archived_noAssert ==
    IF Cardinality(course_set) = 0 THEN "False" ELSE is_archived(first_course)

\* Semester.is_archived; the assertion of line 68 fails when the courses of
\* the semester disagree.
semester_is_archived ==
    IF Cardinality(course_set) = 0 THEN "False"
    ELSE IF \E c \in course_set : is_archived(c) = "AssertionError"
         THEN "AssertionError"
    ELSE IF \E c \in course_set : is_archived(c) # is_archived(first_course)
         THEN "AssertionError"
         ELSE is_archived(first_course)

\* A request that is not inside Course.save
Idle == [course |-> None, at |-> "idle"]

\* ------------------------------------------------------------------- Init
Init ==
    /\ course_set = {}
    /\ state = [c \in Courses |-> "new"]
    /\ participants = [c \in Courses |-> {}]
    /\ voters = [c \in Courses |-> {}]
    /\ participant_count = [c \in Courses |-> None]
    /\ voter_count = [c \in Courses |-> None]
    /\ textanswers = [c \in Courses |-> <<>>]
    /\ pc = "idle"
    /\ batch = <<>>
    /\ last = [op |-> "none", result |-> "none"]
    /\ contributions = [c \in Courses |-> {}]
    /\ general = [c \in Courses |-> 0]
    /\ email = [u \in Profiles |-> ""]
    /\ delegates = [u \in Profiles |-> {}]
    /\ cc_users = [u \in Profiles |-> {}]
    /\ staff = {}
    /\ saving = [p \in Savers |-> Idle]
    /\ reviewing = {}
    /\ outbox = [op |-> "none"]

\* ---------------------------------------------------------------- actions
\* Course.general_contribution: contributions.get(contributor=None).  Only
\* DoesNotExist is caught; with several such rows get raises.
general_contribution(c) ==
    IF general[c] = 0 THEN "None"
    ELSE IF general[c] = 1 THEN "Contribution"
    ELSE "MultipleObjectsReturned"

\* What Course.save, run without interference, leaves of the rows with
\* contributor=None: one is created when general_contribution is None.
Saved(c) ==
    general' = [general EXCEPT ![c] =
                   IF general_contribution(c) = "None" THEN 1 ELSE @]

\* A course is created in the semester with the defaults of its fields.
CreateCourse(c) ==
    /\ c \notin course_set
    /\ course_set' = course_set \cup {c}
    /\ Saved(c)
    /\ UNCHANGED <<courseVars, liveVars, archiveVars, last>>
    /\ UNCHANGED <<contributions, userVars, callVars>>

\* What the @transition decorator of django_fsm does with a call of t on a
\* course in state st whose conditions evaluate to met: the state after the
\* call and the outcome.  A source that does not match and a condition that
\* is not met raise the same exception, TransitionNotAllowed.
transition(st, t, met) ==
    IF st \in Source(t) /\ met
    THEN [state |-> Target(t), result |-> "ok"]
    ELSE [state |-> st, result |-> "TransitionNotAllowed"]

\* review_finished without its condition
conditions_none(c, t) == TRUE

\* conditions= of each @transition decorator, evaluated on course c
conditions(c, t) == t = "review_finished" => is_fully_checked(c)

\* The kind of an operation, as last records it
OpKind(t) == IF t = "review_finished" THEN "review_finished" ELSE "transition"

\* Transition with a revoke that also clears the frozen counts
Transition_revokeClears(c, t) ==
    /\ c \in course_set
    /\ LET r == transition(state[c], t, conditions(c, t)) IN
         /\ state' = [state EXCEPT ![c] = r.state]
         /\ last' = [op |-> OpKind(t), result |-> r.result]
         /\ IF t = "revoke" /\ r.result = "ok"
            THEN /\ participant_count' = [participant_count EXCEPT ![c] = None]
                 /\ voter_count' = [voter_count EXCEPT ![c] = None]
            ELSE UNCHANGED <<participant_count, voter_count>>
    /\ UNCHANGED <<course_set, liveVars, archiveVars>>
    /\ UNCHANGED <<contributions, general, userVars, callVars>>

\* A call of one of the nine @transition methods on course c.
Transition(c, t) ==
    /\ c \in course_set
    /\ LET r == transition(state[c], t, conditions(c, t)) IN
         /\ state' = [state EXCEPT ![c] = r.state]
         /\ last' = [op |-> OpKind(t), result |-> r.result]
    /\ UNCHANGED <<course_set, participant_count, voter_count, liveVars,
                   archiveVars>>
    /\ UNCHANGED <<contributions, general, userVars, callVars>>

\* Staff add user u to, or remove user u from, the participants of c.
AddParticipant(c, u) ==
    /\ c \in course_set
    /\ u \notin participants[c]
    /\ participants' = [participants EXCEPT ![c] = @ \cup {u}]
    /\ UNCHANGED <<course_set, courseVars, voters, textanswers, archiveVars,
                   last>>
    /\ UNCHANGED <<contributions, general, userVars, callVars>>

RemoveParticipant(c, u) ==
    /\ c \in course_set
    /\ u \in participants[c]
    /\ participants' = [participants EXCEPT ![c] = @ \ {u}]
    /\ UNCHANGED <<course_set, courseVars, voters, textanswers, archiveVars,
                   last>>
    /\ UNCHANGED <<contributions, general, userVars, callVars>>

\* User u votes on c: u joins the voters and, when withText, the vote leaves
\* one text answer, which starts unchecked.
Vote(c, u, withText) ==
    /\ c \in course_set
    /\ can_user_vote(c, u)
    /\ voters' = [voters EXCEPT ![c] = @ \cup {u}]
    /\ IF withText
       THEN /\ Cardinality(DOMAIN textanswers[c]) < MaxTextAnswers
            /\ textanswers' =
                   [textanswers EXCEPT ![c] = Append(@, FALSE)]
       ELSE textanswers' = textanswers
    /\ UNCHANGED <<course_set, courseVars, participants, archiveVars, last>>
    /\ UNCHANGED <<contributions, general, userVars, callVars>>

\* Staff set TextAnswer.checked of answer a of course c to b.
SetChecked(c, a, b) ==
    /\ c \in course_set
    /\ a \in DOMAIN textanswers[c]
    /\ textanswers[c][a] # b
    /\ textanswers' = [textanswers EXCEPT ![c][a] = b]
    /\ UNCHANGED <<course_set, courseVars, participants, voters, archiveVars,
                   last>>
    /\ UNCHANGED <<contributions, general, userVars, callVars>>

\* The exception of a failed archival: NotArchiveable when is_archiveable
\* is False, and the AssertionError that is_archiveable let through.
Raised(archiveable) ==
    IF archiveable = "False" THEN "NotArchiveable" ELSE "AssertionError"

\* How a call of Semester.archive ends
ArchiveReturned == [op |-> "Semester.archive", result |-> "ok"]
ArchiveRaised(archiveable) ==
    [op |-> "Semester.archive", result |-> Raised(archiveable)]

\* _archive that stores "count or None": a count of 0 is stored as null
Archived_orNone(c, st) ==
    /\ participant_count' =
           [participant_count EXCEPT ![c] =
               IF Cardinality(participants[c]) = 0 THEN None
               ELSE Cardinality(participants[c])]
    /\ voter_count' =
           [voter_count EXCEPT ![c] =
               IF Cardinality(voters[c]) = 0 THEN None
               ELSE Cardinality(voters[c])]
    /\ state' = [state EXCEPT ![c] = st]
    /\ Saved(c)

\* The fields of course c after Course._archive has saved them: the counts
\* of the live relations, and the state the course object was loaded with
\* (Model.save writes every field of the object).
Archived(c, st) ==
    /\ participant_count' =
           [participant_count EXCEPT ![c] = Cardinality(participants[c])]
    /\ voter_count' = [voter_count EXCEPT ![c] = Cardinality(voters[c])]
    /\ state' = [state EXCEPT ![c] = st]
    /\ Saved(c)

\* Semester.archive, line 72: the pre-check over the courses of the semester.
SemesterArchiveCheck ==
    /\ pc = "idle"
    /\ IF semester_is_archiveable = "True"
       THEN /\ pc' = "checked"
            /\ last' = last
       ELSE /\ pc' = "idle"
            /\ last' = ArchiveRaised(semester_is_archiveable)
    /\ UNCHANGED <<course_set, courseVars, liveVars, batch>>
    /\ UNCHANGED <<contributions, general, userVars, callVars>>

\* The courses of the semester in Meta.ordering, as course objects
RECURSIVE CourseObjects(_)
CourseObjects(S) ==
    IF S = {} THEN <<>>
    ELSE LET c == CHOOSE x \in S : \A y \in S : x <= y
         IN <<[id |-> c, state |-> state[c],
               participant_count |-> participant_count[c],
               voter_count |-> voter_count[c]]>>
            \o CourseObjects(S \ {c})

\* Semester.archive, line 74: the loop's query fetches the courses; with no
\* course the loop is over and the call returns.
SemesterArchiveQuery ==
    /\ pc = "checked"
    /\ IF course_set = {}
       THEN /\ pc' = "idle"
            /\ batch' = <<>>
            /\ last' = ArchiveReturned
       ELSE /\ pc' = "loop"
            /\ batch' = CourseObjects(course_set)
            /\ last' = last
    /\ UNCHANGED <<course_set, courseVars, liveVars>>
    /\ UNCHANGED <<contributions, general, userVars, callVars>>

\* Semester.archive, line 75: _archive on the next fetched course.  It
\* raises NotArchiveable out of Semester.archive when the fetched object is
\* not archiveable; after the last course the call returns.
SemesterArchiveStep ==
    /\ pc = "loop"
    /\ batch # <<>>
    /\ LET course == Head(batch)
           archiveable ==
               is_archiveable_of(course.state, course.participant_count,
                                 course.voter_count)
       IN IF archiveable = "True"
          THEN /\ Archived(course.id, course.state)
               /\ batch' = Tail(batch)
               /\ IF Tail(batch) = <<>>
                  THEN /\ pc' = "idle"
                       /\ last' = ArchiveReturned
                  ELSE /\ pc' = "loop"
                       /\ last' = last
          ELSE /\ UNCHANGED <<courseVars, general>>
               /\ batch' = <<>>
               /\ pc' = "idle"
               /\ last' = ArchiveRaised(archiveable)
    /\ UNCHANGED <<course_set, liveVars>>
    /\ UNCHANGED <<contributions, userVars, callVars>>

\* A direct call of Course._archive on course c, loaded and saved in place.
\* One archival runs at a time: no direct call during Semester.archive.
CourseArchive(c) ==
    /\ pc = "idle"
    /\ c \in course_set
    /\ IF is_archiveable(c) = "True"
       THEN /\ Archived(c, state[c])
            /\ last' = [op |-> "Course._archive", result |-> "ok"]
       ELSE /\ UNCHANGED <<courseVars, general>>
            /\ last' = [op |-> "Course._archive",
                        result |-> Raised(is_archiveable(c))]
    /\ UNCHANGED <<course_set, liveVars, archiveVars>>
    /\ UNCHANGED <<contributions, userVars, callVars>>

\* ---------------------------------------------------------- specifications
\* The requests on course c other than archival
CourseRequest(c) ==
    \/ CreateCourse(c)
    \/ \E t \in Transitions : Transition(c, t)
    \/ \E u \in Users : AddParticipant(c, u)
    \/ \E u \in Users : RemoveParticipant(c, u)
    \/ \E u \in Users, withText \in BOOLEAN : Vote(c, u, withText)
    \/ \E a \in AnswerIds, b \in BOOLEAN : SetChecked(c, a, b)

\* The steps of the call of Semester.archive
SemesterArchive ==
    \/ SemesterArchiveCheck
    \/ SemesterArchiveQuery
    \/ SemesterArchiveStep

\* The semester: requests on its courses interleave with Semester.archive,
\* the only caller of Course._archive.
Next ==
    \/ \E c \in Courses : CourseRequest(c)
    \/ SemesterArchive

Spec == Init /\ [][Next]_vars

\* The lifecycle and the archival of the courses of the semester, with no
\* request running during a call of Semester.archive.  Participants, votes
\* and text answers are left alone: whether a course is archiveable does not
\* depend on them.
NextSeq ==
    \/ pc = "idle" /\ \E c \in Courses : CreateCourse(c)
    \/ pc = "idle" /\ \E c \in Courses, t \in Transitions : Transition(c, t)
    \/ SemesterArchive

SpecSeq == Init /\ [][NextSeq]_vars

\* A semester of one course: the requests on the course, direct calls of
\* its _archive, and Semester.archive, all interleaved.
TheCourse == CHOOSE c \in Courses : \A d \in Courses : c <= d

NextCourse ==
    \/ CourseRequest(TheCourse)
    \/ CourseArchive(TheCourse)
    \/ SemesterArchive

SpecCourse == Init /\ [][NextCourse]_vars

\* ----------------------------------------------------------------- claims
\* The transition table as the specification states it
From(t) ==
    CASE t = "ready_for_contributors" -> {"new", "lecturerApproved"}
      [] t = "contributor_approve"    -> {"prepared"}
      [] t = "staff_approve"          -> {"new", "prepared", "lecturerApproved"}
      [] t = "revert_to_new"          -> {"prepared"}
      [] t = "evaluation_begin"       -> {"approved"}
      [] t = "evaluation_end"         -> {"inEvaluation"}
      [] t = "review_finished"        -> {"evaluated"}
      [] t = "publish"                -> {"reviewed"}
      [] t = "revoke"                 -> {"published"}

To(t) ==
    CASE t = "ready_for_contributors" -> "prepared"
      [] t = "contributor_approve"    -> "lecturerApproved"
      [] t = "staff_approve"          -> "approved"
      [] t = "revert_to_new"          -> "new"
      [] t = "evaluation_begin"       -> "inEvaluation"
      [] t = "evaluation_end"         -> "evaluated"
      [] t = "review_finished"        -> "reviewed"
      [] t = "publish"                -> "published"
      [] t = "revoke"                 -> "reviewed"

\* Course c has a text answer that is not checked
HasUnchecked(c) == \E a \in DOMAIN textanswers[c] : textanswers[c][a] = FALSE

\* Both frozen counts of course c are set
Frozen(c) == participant_count[c] # None /\ voter_count[c] # None

\* C1: a call of transition t on a course in state s succeeds iff s is in
\* From(t) and, for review_finished, the course has no unchecked text answer;
\* on success the new state is To(t), on failure the state is unchanged.
C1_TransitionTable ==
    [][\A c \in Courses, t \in Transitions :
        Transition(c, t) =>
          LET allowed ==
                  state[c] \in From(t)
                  /\ (t = "review_finished" => ~HasUnchecked(c))
          IN /\ (last'.result = "ok") <=> allowed
             /\ allowed => state'[c] = To(t)
             /\ ~allowed => state'[c] = state[c]]_vars

\* C1 witness: review_finished has succeeded on a course that has text
\* answers, all of them checked, and the course is reviewed.
C1_Witness ==
    \E c \in course_set :
        /\ last = [op |-> "review_finished", result |-> "ok"]
        /\ state[c] = "reviewed"
        /\ DOMAIN textanswers[c] # {}
        /\ ~HasUnchecked(c)

\* The outcome of review_finished called in a state other than evaluated
WrongPhase == transition("new", "review_finished", TRUE).result

NotArchiveableCourse(c) ==
    Frozen(c) \/ state[c] \notin {"new", "published"}

\* C3: with no request running during the call, Semester.archive fails with
\* NotArchiveable and freezes no count when a course of the semester is not
\* archiveable; when every course is archiveable it goes on, never raises
\* later, and returns with every course of the semester archived.
C3_AllOrNothing ==
    [][/\ SemesterArchiveCheck =>
            IF \E c \in course_set : NotArchiveableCourse(c)
            THEN /\ last' = [op |-> "Semester.archive",
                            result |-> "NotArchiveable"]
                 /\ pc' = "idle"
                 /\ UNCHANGED <<participant_count, voter_count>>
            ELSE pc' = "checked"
       /\ pc # "idle" /\ pc' = "idle" =>
            /\ last' = [op |-> "Semester.archive", result |-> "ok"]
            /\ \A c \in course_set' :
                   participant_count'[c] # None /\ voter_count'[c] # None]_vars

\* C3 witness: Semester.archive has failed with NotArchiveable on a semester
\* of two courses, one of them in evaluation, and no course has a frozen
\* count.
C3_Witness ==
    /\ last = [op |-> "Semester.archive", result |-> "NotArchiveable"]
    /\ Cardinality(course_set) >= 2
    /\ \E c \in course_set : state[c] = "inEvaluation"
    /\ \E c \in course_set : state[c] = "new"
    /\ \A c \in course_set :
           participant_count[c] = None /\ voter_count[c] = None

\* C4 as stated, for the courses the call fetched: when the loop of
\* Semester.archive ends, by return or by raise, the semester is not
\* half-archived: either no course of the semester is archived, or every
\* course the loop still had to archive is archived too.
C4_NeverHalfArchived ==
    [][pc = "loop" /\ pc' = "idle" =>
        \/ \A c \in course_set' :
               participant_count'[c] = None /\ voter_count'[c] = None
        \/ \A i \in 1..Len(batch) :
               /\ participant_count'[batch[i].id] # None
               /\ voter_count'[batch[i].id] # None]_vars

\* C5: _archive called on an archived course fails with NotArchiveable and
\* leaves both frozen counts as they are, whatever the live sets are now.
C5_ArchiveTwice ==
    [][\A c \in Courses :
        CourseArchive(c) /\ Frozen(c) =>
          /\ last' = [op |-> "Course._archive", result |-> "NotArchiveable"]
          /\ participant_count'[c] = participant_count[c]
          /\ voter_count'[c] = voter_count[c]]_vars

\* C5 witness: _archive has failed with NotArchiveable on an archived course
\* whose live participants or voters are no longer as many as were frozen.
C5_Witness ==
    \E c \in course_set :
        /\ last = [op |-> "Course._archive", result |-> "NotArchiveable"]
        /\ Frozen(c)
        /\ \/ participant_count[c] # Cardinality(participants[c])
           \/ voter_count[c] # Cardinality(voters[c])

\* C6: an archived course stays archived in every later state: no step
\* resets a frozen count to unset.
C6_ArchivalIrreversible ==
    [][\A c \in Courses :
        /\ participant_count[c] # None => participant_count'[c] # None
        /\ voter_count[c] # None => voter_count'[c] # None
        /\ is_archived(c) = "True" => is_archived(c)' = "True"]_vars

\* C6 witness: a course archived in state new has been taken through the
\* lifecycle, votes and reviews to published, and is still archived.
C6_Witness ==
    \E c \in course_set :
        /\ Frozen(c)
        /\ voter_count[c] = 0
        /\ voters[c] # {}
        /\ DOMAIN textanswers[c] # {}
        /\ state[c] = "published"

\* C7: the step that archives a course freezes the sizes of its live
\* participant and voter sets of that moment; from then on num_participants
\* and num_voters return the frozen values whatever happens to the live
\* sets; until then they return the sizes of the live sets.
C7_FrozenCounts ==
    [][\A c \in Courses :
        /\ ~Frozen(c) /\ Frozen(c)' =>
             /\ participant_count'[c] = Cardinality(participants[c])
             /\ voter_count'[c] = Cardinality(voters[c])
        /\ Frozen(c) =>
             /\ num_participants(c)' = participant_count[c]
             /\ num_voters(c)' = voter_count[c]
        /\ ~Frozen(c)' =>
             /\ num_participants(c)' = Cardinality(participants'[c])
             /\ num_voters(c)' = Cardinality(voters'[c])]_vars

\* C7 witness: an archived course whose live participants and live voters
\* both are no longer as many as were frozen.
C7_Witness ==
    \E c \in course_set :
        /\ Frozen(c)
        /\ participant_count[c] # Cardinality(participants[c])
        /\ voter_count[c] # Cardinality(voters[c])

\* C8: in every state the frozen participant count of a course is set iff
\* its frozen voter count is set, so the assertion of is_archived holds, and
\* the course is archived iff both are set.
C8_CountsSetTogether ==
    \A c \in Courses :
        /\ (participant_count[c] = None) <=> (voter_count[c] = None)
        /\ is_archived(c) # "AssertionError"
        /\ is_archived(c) = "True" <=>
               (participant_count[c] # None /\ voter_count[c] # None)

\* C8 witness: a course archived while it had participants and no voters.
C8_Witness ==
    \E c \in course_set :
        /\ participant_count[c] # None
        /\ participant_count[c] > 0
        /\ voter_count[c] = 0

\* C9 as stated, for the states in which no call of Semester.archive is
\* running: the courses of the semester agree on being archived, so the
\* assertion of Semester.is_archived does not fail.
C9_NoMixedSemester ==
    pc = "idle" =>
        /\ semester_is_archived # "AssertionError"
        /\ \A c, d \in course_set : Frozen(c) <=> Frozen(d)

\* C10 as stated: Semester.is_archived returns true iff every course of the
\* semester is archived, a semester of no course included, and it returns
\* true after Semester.archive has returned.
C10_ArchivedIffAll ==
    /\ [](semester_is_archived = "True" <=> \A c \in course_set : Frozen(c))
    /\ [][pc # "idle" /\ pc' = "idle"
             /\ last' = [op |-> "Semester.archive", result |-> "ok"]
          => semester_is_archived' = "True"]_vars

\* C10 as amended: for a semester of at least one course is_archived returns
\* true iff every course is archived; for a semester of no course it returns
\* false; and after Semester.archive, run with no request interleaved, has
\* returned, is_archived returns true iff the semester has a course.
C10_ArchivedIffAllNonEmpty ==
    /\ [](IF course_set = {}
          THEN semester_is_archived = "False"
          ELSE semester_is_archived = "True" <=>
                   \A c \in course_set : Frozen(c))
    /\ [][pc # "idle" /\ pc' = "idle"
             /\ last' = [op |-> "Semester.archive", result |-> "ok"]
          => (semester_is_archived' = "True" <=> course_set' # {})]_vars

\* C10 witness: Semester.archive has returned on a semester of two courses
\* and is_archived returns true.
C10_Witness ==
    /\ pc = "idle"
    /\ last = [op |-> "Semester.archive", result |-> "ok"]
    /\ Cardinality(course_set) >= 2
    /\ semester_is_archived = "True"
\* ------------------------------------------- Course.save, query by query
\* Course.save, line 183: request p writes the row of course c; the first
\* save of a course inserts it into the semester.
SaveRow(p, c) ==
    /\ saving[p] = Idle
    /\ course_set' = course_set \cup {c}
    /\ saving' = [saving EXCEPT ![p] = [course |-> c, at |-> "check"]]
    /\ UNCHANGED <<courseVars, liveVars, archiveVars, last, contributions,
                   general, userVars, reviewing, outbox>>

\* Course.save, line 186: request p evaluates general_contribution.  With a
\* row found save returns; with several rows the exception of get leaves
\* save.
SaveCheck(p) ==
    /\ saving[p].at = "check"
    /\ LET found == general_contribution(saving[p].course) IN
         IF found = "None"
         THEN /\ saving' = [saving EXCEPT ![p].at = "create"]
              /\ last' = last
         ELSE /\ saving' = [saving EXCEPT ![p] = Idle]
              /\ last' = [op |-> "Course.save",
                          result |-> IF found = "Contribution" THEN "ok"
                                     ELSE found]
    /\ UNCHANGED <<course_set, courseVars, liveVars, archiveVars,
                   contributions, general, userVars, reviewing, outbox>>

\* Course.save, line 187: request p inserts a row with contributor=None.
\* unique_together (course, contributor) does not reject it: two rows with
\* a null contributor do not collide.
SaveCreate(p) ==
    /\ saving[p].at = "create"
    /\ general' = [general EXCEPT ![saving[p].course] = @ + 1]
    /\ saving' = [saving EXCEPT ![p] = Idle]
    /\ last' = [op |-> "Course.save", result |-> "ok"]
    /\ UNCHANGED <<course_set, courseVars, liveVars, archiveVars,
                   contributions, userVars, reviewing, outbox>>

\* Requests that save courses, their queries interleaved
NextSave ==
    \E p \in Savers :
        \/ \E c \in Courses : SaveRow(p, c)
        \/ SaveCheck(p)
        \/ SaveCreate(p)

SpecSave == Init /\ [][NextSave]_vars

\* Course c is not being saved by any request
NotInSave(c) == \A p \in Savers : saving[p].course # c

\* C11: a course that has been saved has exactly one contribution with no
\* contributor, also after saves of the same course that interleave: never
\* more than one, and one as soon as no save of the course is in flight.
C11_OneGeneralContribution ==
    \A c \in course_set :
        /\ general[c] <= 1
        /\ NotInSave(c) => general[c] = 1

\* ------------------------------------------- the contributions of a course
\* Contribution.clean on a row: responsible contributors can always edit.
clean(row) == [row EXCEPT !.can_edit = row.responsible \/ row.can_edit]

\* The contributions of course c with responsible=True
responsible_set(c) == {row \in contributions[c] : row.responsible}

\* A contribution of user u to course c is created with the given flags,
\* cleaned and saved.  unique_together allows one row per (course, user).
CreateContribution(c, u, responsible, can_edit) ==
    /\ c \in course_set
    /\ \A row \in contributions[c] : row.contributor # u
    /\ contributions' =
           [contributions EXCEPT ![c] =
               @ \cup {clean([contributor |-> u, responsible |-> responsible,
                              can_edit |-> can_edit])}]
    /\ UNCHANGED <<course_set, courseVars, liveVars, archiveVars, last,
                   general, userVars, callVars>>

\* The contribution of user u to course c is edited to the given flags,
\* cleaned and saved.
EditContribution(c, u, responsible, can_edit) ==
    /\ c \in course_set
    /\ \E old \in contributions[c] :
         /\ old.contributor = u
         /\ contributions' =
                [contributions EXCEPT ![c] =
                    (@ \ {old}) \cup
                    {clean([contributor |-> u, responsible |-> responsible,
                            can_edit |-> can_edit])}]
    /\ UNCHANGED <<course_set, courseVars, liveVars, archiveVars, last,
                   general, userVars, callVars>>

\* Courses are created and their contributions created and edited
NextContrib ==
    \E c \in Courses :
        \/ CreateCourse(c)
        \/ \E u \in Profiles, responsible \in BOOLEAN, can_edit \in BOOLEAN :
               \/ CreateContribution(c, u, responsible, can_edit)
               \/ EditContribution(c, u, responsible, can_edit)

SpecContrib == Init /\ [][NextContrib]_vars

\* C12: every course has exactly one contribution with responsible = true,
\* and every contribution with responsible = true has can_edit = true.
C12_OneResponsible ==
    \A c \in course_set :
        /\ Cardinality(responsible_set(c)) = 1
        /\ \A row \in responsible_set(c) : row.can_edit

\* ------------------------------------------------- the publication quorum
\* The values settings.MIN_ANSWER_COUNT can be configured to
AnswerCounts == 0..MaxCount

\* The values settings.MIN_ANSWER_PERCENTAGE can be configured to: the
\* fractions num/den between 0 and 1
Percentages == {pct \in [num : 0..MaxCount, den : 1..MaxCount] : pct.num <= pct.den}

\* can_publish_grades with a strict test of the percentage
can_publish_grades_of_strict(v, p, min_count, pct) ==
    IF ~(v >= min_count) THEN "False"
    ELSE IF p = 0 THEN "ZeroDivisionError"
    ELSE IF v * pct.den > pct.num * p THEN "True" ELSE "False"

\* Course.can_publish_grades on v voters and p participants.  "and" does
\* not evaluate the division when the first test fails; float(v) / p raises
\* ZeroDivisionError when p is 0.  For counts of this size the rounding of
\* the float quotient cannot change the comparison, so v / p >= num / den
\* is decided exactly, as v * den >= num * p.
can_publish_grades_of(v, p, min_count, pct) ==
    IF ~(v >= min_count) THEN "False"
    ELSE IF p = 0 THEN "ZeroDivisionError"
    ELSE IF v * pct.den >= pct.num * p THEN "True" ELSE "False"

can_publish_grades(c, min_count, pct) ==
    can_publish_grades_of(num_voters(c), num_participants(c), min_count, pct)

\* can_publish_grades is evaluated on course c under the configured
\* thresholds.
CanPublishGrades(c, min_count, pct) ==
    /\ c \in course_set
    /\ last' = [op |-> "can_publish_grades",
                result |-> can_publish_grades(c, min_count, pct),
                MIN_ANSWER_COUNT |-> min_count,
                MIN_ANSWER_PERCENTAGE |-> pct]
    /\ UNCHANGED <<course_set, courseVars, liveVars, archiveVars,
                   contributions, general, userVars, callVars>>

\* A course with any counts: archived with frozen counts, or not archived
\* with its live participants and voters.
InitQuorum ==
    /\ course_set = {TheCourse}
    /\ state = [c \in Courses |-> IF c = TheCourse THEN "published" ELSE "new"]
    /\ \/ /\ \E p \in 0..MaxCount, v \in 0..MaxCount :
                /\ participant_count =
                       [c \in Courses |-> IF c = TheCourse THEN p ELSE None]
                /\ voter_count =
                       [c \in Courses |-> IF c = TheCourse THEN v ELSE None]
          /\ participants = [c \in Courses |-> {}]
          /\ voters = [c \in Courses |-> {}]
       \/ /\ participant_count = [c \in Courses |-> None]
          /\ voter_count = [c \in Courses |-> None]
          /\ \E P \in SUBSET Users, V \in SUBSET Users :
                /\ participants =
                       [c \in Courses |-> IF c = TheCourse THEN P ELSE {}]
                /\ voters = [c \in Courses |-> IF c = TheCourse THEN V ELSE {}]
    /\ textanswers = [c \in Courses |-> <<>>]
    /\ pc = "idle"
    /\ batch = <<>>
    /\ last = [op |-> "none", result |-> "none"]
    /\ contributions = [c \in Courses |-> {}]
    /\ general = [c \in Courses |-> IF c = TheCourse THEN 1 ELSE 0]
    /\ email = [u \in Profiles |-> ""]
    /\ delegates = [u \in Profiles |-> {}]
    /\ cc_users = [u \in Profiles |-> {}]
    /\ staff = {}
    /\ saving = [p \in Savers |-> Idle]
    /\ reviewing = {}
    /\ outbox = [op |-> "none"]

NextQuorum ==
    \E min_count \in AnswerCounts, pct \in Percentages :
        CanPublishGrades(TheCourse, min_count, pct)

SpecQuorum == InitQuorum /\ [][NextQuorum]_vars

\* can_publish_grades has been evaluated on the course
QuorumEvaluated == last.op = "can_publish_grades"

\* C13: with p > 0 participants and v voters, can_publish_grades is true
\* iff v >= MIN_ANSWER_COUNT and v / p >= MIN_ANSWER_PERCENTAGE, both
\* thresholds inclusive.
C13_Quorum ==
    QuorumEvaluated /\ num_participants(TheCourse) > 0 =>
        LET v == num_voters(TheCourse)
            p == num_participants(TheCourse)
            pct == last.MIN_ANSWER_PERCENTAGE
        IN  /\ last.result \in {"True", "False"}
            /\ last.result = "True" <=>
                   /\ v >= last.MIN_ANSWER_COUNT
                   /\ ~(v * pct.den < pct.num * p)

\* 2 participants, 1 voter, MIN_ANSWER_COUNT = 1, MIN_ANSWER_PERCENTAGE =
\* 1/2: both thresholds are met exactly, and the answer is true.
C13_Witness ==
    /\ QuorumEvaluated
    /\ num_participants(TheCourse) = 2
    /\ num_voters(TheCourse) = 1
    /\ last.MIN_ANSWER_COUNT = 1
    /\ last.MIN_ANSWER_PERCENTAGE = [num |-> 1, den |-> 2]
    /\ last.result = "True"

\* C14: on a course with 0 participants can_publish_grades returns false
\* and raises nothing, whatever the voter count and MIN_ANSWER_COUNT.
C14_ZeroParticipantsFalse ==
    QuorumEvaluated /\ num_participants(TheCourse) = 0 =>
        last.result = "False"

\* ------------------------------------- review_finished, query then save
\* A request calls review_finished on course c as it loads it: the
\* decorator tests the source state and runs the query of
\* is_fully_checked, and on success sets the state of the course object in
\* memory.  Nothing is written yet.
ReviewFinishedGuard(c) ==
    /\ c \in course_set
    /\ c \notin reviewing
    /\ LET r == transition(state[c], "review_finished",
                           conditions(c, "review_finished")) IN
         IF r.result = "ok"
         THEN /\ reviewing' = reviewing \cup {c}
              /\ last' = last
         ELSE /\ reviewing' = reviewing
              /\ last' = [op |-> "review_finished", result |-> r.result]
    /\ UNCHANGED <<course_set, courseVars, liveVars, archiveVars,
                   contributions, general, userVars, saving, outbox>>

\* The request saves the course object: the row gets the state reviewed.
ReviewFinishedSave(c) ==
    /\ c \in reviewing
    /\ reviewing' = reviewing \ {c}
    /\ state' = [state EXCEPT ![c] = Target("review_finished")]
    /\ Saved(c)
    /\ last' = [op |-> "review_finished", result |-> "ok"]
    /\ UNCHANGED <<course_set, participant_count, voter_count, liveVars,
                   archiveVars, contributions, userVars, saving, outbox>>

\* The requests on one course, review_finished as its query and its save
NextReview ==
    \/ CreateCourse(TheCourse)
    \/ \E t \in Transitions \ {"review_finished"} : Transition(TheCourse, t)
    \/ \E u \in Users : AddParticipant(TheCourse, u)
    \/ \E u \in Users : RemoveParticipant(TheCourse, u)
    \/ \E u \in Users, withText \in BOOLEAN : Vote(TheCourse, u, withText)
    \/ \E a \in AnswerIds, b \in BOOLEAN : SetChecked(TheCourse, a, b)
    \/ ReviewFinishedGuard(TheCourse)
    \/ ReviewFinishedSave(TheCourse)

SpecReview == Init /\ [][NextReview]_vars

\* C15: review_finished never writes the state reviewed while the course
\* has an unchecked text answer: no answer mutation comes between the read
\* of the guard and the write of the state.
C15_NoWriteWhileUnchecked ==
    [][\A c \in Courses : ReviewFinishedSave(c) => is_fully_checked(c)]_vars

\* ------------------------------------------- recipients of a notification
\* The recipient groups a template can be sent to
RecipientGroups ==
    {"responsible", "contributors", "editors", "all_participants",
     "due_participants"}

\* The rows of a queryset over the set S of users, in the order of their ids
RECURSIVE Ordered(_)
Ordered(S) ==
    IF S = {} THEN <<>>
    ELSE LET u == CHOOSE x \in S : \A y \in S : x <= y
         IN <<u>> \o Ordered(S \ {u})

\* Course.responsible_contributor: contributions.get(responsible=True),
\* on a course with one such contribution
responsible_contributor(c) ==
    (CHOOSE row \in responsible_set(c) : TRUE).contributor

\* Course.due_participants
due_participants(c) == participants[c] \ voters[c]

\* recipient_list_for_course with "if" for "elif" on due_participants
recipient_list_for_course_if(c, recipient_groups) ==
    (IF "responsible" \in recipient_groups
     THEN <<responsible_contributor(c)>> ELSE <<>>)
    \o (IF "contributors" \in recipient_groups
        THEN Ordered({row.contributor : row \in contributions[c]})
        ELSE IF "editors" \in recipient_groups
        THEN Ordered({row.contributor :
                         row \in {r \in contributions[c] : r.can_edit}})
        ELSE <<>>)
    \o (IF "all_participants" \in recipient_groups
        THEN Ordered(participants[c]) ELSE <<>>)
    \o (IF "due_participants" \in recipient_groups
        THEN Ordered(due_participants(c)) ELSE <<>>)

\* EmailTemplate.recipient_list_for_course: the list of recipients, one
\* part per group, concatenated.  contributions holds the rows that have a
\* contributor, which is what exclude(contributor=None) keeps.
recipient_list_for_course(c, recipient_groups) ==
    (IF "responsible" \in recipient_groups
     THEN <<responsible_contributor(c)>> ELSE <<>>)
    \o (IF "contributors" \in recipient_groups
        THEN Ordered({row.contributor : row \in contributions[c]})
        ELSE IF "editors" \in recipient_groups
        THEN Ordered({row.contributor :
                         row \in {r \in contributions[c] : r.can_edit}})
        ELSE <<>>)
    \o (IF "all_participants" \in recipient_groups
        THEN Ordered(participants[c])
        ELSE IF "due_participants" \in recipient_groups
        THEN Ordered(due_participants(c))
        ELSE <<>>)

\* recipient_list_for_course is called on course c.
RecipientList(c, recipient_groups) ==
    /\ c \in course_set
    /\ outbox' = [op |-> "recipient_list_for_course",
                  course |-> c,
                  recipient_groups |-> recipient_groups,
                  recipients |->
                      recipient_list_for_course(c, recipient_groups)]
    /\ UNCHANGED <<course_set, courseVars, liveVars, archiveVars, last,
                   contributions, general, userVars, saving, reviewing>>

\* The rows a contribution of a user can be, after Contribution.clean
ContributionRows ==
    {row \in [contributor : Profiles, responsible : BOOLEAN,
              can_edit : BOOLEAN] : row.responsible => row.can_edit}

\* The contributions a course can have when responsible_contributor is
\* defined on it: one row per user at most, one row with responsible=True
ContributionSets ==
    {rows \in SUBSET ContributionRows :
        /\ \A r1 \in rows, r2 \in rows :
               r1.contributor = r2.contributor => r1 = r2
        /\ Cardinality({row \in rows : row.responsible}) = 1}

\* One course with any contributions, participants and voters
InitRecipients ==
    /\ course_set = {TheCourse}
    /\ state = [c \in Courses |-> "new"]
    /\ \E rows \in ContributionSets :
           contributions =
               [c \in Courses |-> IF c = TheCourse THEN rows ELSE {}]
    /\ \E P \in SUBSET Profiles, V \in SUBSET Profiles :
           /\ participants =
                  [c \in Courses |-> IF c = TheCourse THEN P ELSE {}]
           /\ voters = [c \in Courses |-> IF c = TheCourse THEN V ELSE {}]
    /\ participant_count = [c \in Courses |-> None]
    /\ voter_count = [c \in Courses |-> None]
    /\ textanswers = [c \in Courses |-> <<>>]
    /\ pc = "idle"
    /\ batch = <<>>
    /\ last = [op |-> "none", result |-> "none"]
    /\ general = [c \in Courses |-> IF c = TheCourse THEN 1 ELSE 0]
    /\ email = [u \in Profiles |-> ""]
    /\ delegates = [u \in Profiles |-> {}]
    /\ cc_users = [u \in Profiles |-> {}]
    /\ staff = {}
    /\ saving = [p \in Savers |-> Idle]
    /\ reviewing = {}
    /\ outbox = [op |-> "none"]

NextRecipients ==
    \E recipient_groups \in SUBSET RecipientGroups :
        RecipientList(TheCourse, recipient_groups)

SpecRecipients == InitRecipients /\ [][NextRecipients]_vars

\* How often user u occurs in the list
Occurrences(u, list) == Cardinality({i \in DOMAIN list : list[i] = u})

\* 1 when the condition holds, 0 when not
One(condition) == IF condition THEN 1 ELSE 0

\* C18: recipient_list_for_course adds the responsible contributor for
\* responsible; every contributor for contributors, and for editors the
\* can_edit contributors, only when contributors is absent; every
\* participant for all_participants, and for due_participants those who
\* have not voted, only when all_participants is absent; nothing else.
C18_GroupResolution ==
    outbox.op = "recipient_list_for_course" =>
        LET c == outbox.course
            g == outbox.recipient_groups
        IN \A u \in Profiles :
             Occurrences(u, outbox.recipients) =
                 One(/\ "responsible" \in g
                     /\ \E row \in contributions[c] :
                           row.responsible /\ row.contributor = u)
                 + One(\/ /\ "contributors" \in g
                          /\ \E row \in contributions[c] : row.contributor = u
                       \/ /\ "editors" \in g
                          /\ "contributors" \notin g
                          /\ \E row \in contributions[c] :
                                row.can_edit /\ row.contributor = u)
                 + One(\/ /\ "all_participants" \in g
                          /\ u \in participants[c]
                       \/ /\ "due_participants" \in g
                          /\ "all_participants" \notin g
                          /\ u \in participants[c]
                          /\ u \notin voters[c])

\* Sent to editors and due participants: a contributor who cannot edit and
\* has voted is left out, an editor who has not voted is listed as editor
\* and as participant.
C18_Witness ==
    /\ outbox.op = "recipient_list_for_course"
    /\ outbox.recipient_groups = {"editors", "due_participants"}
    /\ \E row \in contributions[outbox.course] :
          /\ ~row.can_edit
          /\ row.contributor \in
                 participants[outbox.course] \cap voters[outbox.course]
          /\ Occurrences(row.contributor, outbox.recipients) = 0
    /\ \E row \in contributions[outbox.course] :
          /\ row.can_edit
          /\ row.contributor \in due_participants(outbox.course)
          /\ Occurrences(row.contributor, outbox.recipients) = 2

\* ------------------------------------------------- sending a notification
\* The address stored for user u when the user has one; email is unique
Address(u) == ToString(u)

\* The values of UserProfile.email of the users: "" is what EmailNullField
\* returns for a user without address
Emails == {e \in [Profiles -> {""} \cup {Address(u) : u \in Profiles}] :
              \A u \in Profiles : e[u] \in {"", Address(u)}}

\* The values of a relation from users to other users
Relations == {r \in [Profiles -> SUBSET Profiles] :
                 \A u \in Profiles : u \notin r[u]}

\* [a[1] for a in settings.MANAGERS]
Managers == <<"managers">>

\* The elements of a list
Range(list) == {list[i] : i \in DOMAIN list}

\* [p.email for p in users if p.email]
Addresses(users) ==
    SelectSeq([i \in DOMAIN users |-> email[users[i]]],
              LAMBDA address : address # "")

\* send_to_user that concatenates the delegates and the cc_users
send_to_user_concat(user, courses, cc) ==
    IF email[user] = "" THEN {}
    ELSE {[to |-> <<email[user]>>,
           cc |-> IF cc
                  THEN Addresses(Ordered(delegates[user])
                                 \o Ordered(cc_users[user]))
                  ELSE <<>>,
           bcc |-> Managers,
           courses |-> courses]}

\* EmailTemplate.send_to_user: the messages it sends, none for a user
\* without address.  The cc list is built from the set of the delegates
\* and cc_users.
send_to_user(user, courses, cc) ==
    IF email[user] = "" THEN {}
    ELSE {[to |-> <<email[user]>>,
           cc |-> IF cc
                  THEN Addresses(Ordered(delegates[user] \cup cc_users[user]))
                  ELSE <<>>,
           bcc |-> Managers,
           courses |-> courses]}

\* send_to_user is called for a user, with no courses.
SendToUser(user, cc) ==
    /\ outbox' = [op |-> "send_to_user", user |-> user, cc |-> cc,
                  mails |-> send_to_user(user, <<>>, cc)]
    /\ UNCHANGED <<course_set, courseVars, liveVars, archiveVars, last,
                   contributions, general, userVars, saving, reviewing>>

\* Users with any addresses, delegates and cc_users
InitSendUser ==
    /\ course_set = {}
    /\ state = [c \in Courses |-> "new"]
    /\ participants = [c \in Courses |-> {}]
    /\ voters = [c \in Courses |-> {}]
    /\ participant_count = [c \in Courses |-> None]
    /\ voter_count = [c \in Courses |-> None]
    /\ textanswers = [c \in Courses |-> <<>>]
    /\ pc = "idle"
    /\ batch = <<>>
    /\ last = [op |-> "none", result |-> "none"]
    /\ contributions = [c \in Courses |-> {}]
    /\ general = [c \in Courses |-> 0]
    /\ email \in Emails
    /\ delegates \in Relations
    /\ cc_users \in Relations
    /\ staff = {}
    /\ saving = [p \in Savers |-> Idle]
    /\ reviewing = {}
    /\ outbox = [op |-> "none"]

NextSendUser == \E user \in Profiles, cc \in BOOLEAN : SendToUser(user, cc)

SpecSendUser == InitSendUser /\ [][NextSendUser]_vars

\* The non-empty addresses of the delegates and cc_users of user u
CcAddressSet(u) ==
    {email[v] : v \in delegates[u] \cup cc_users[u]} \ {""}

\* The message carries the addresses of S in cc, each once, and the
\* managers in bcc
CarriesCc(m, S) ==
    /\ Range(m.cc) = S
    /\ Len(m.cc) = Cardinality(S)
    /\ m.bcc = Managers

is_addressed_noDelegates(user, responsible) ==
    /\ email[user] # ""
    /\ user \notin cc_users[responsible]

\* The test of line 803 on a recipient of a course with that responsible
is_addressed(user, responsible) ==
    /\ email[user] # ""
    /\ user \notin cc_users[responsible]
    /\ user \notin delegates[responsible]

\* Appended that leaves a user out of every course once the user is a
\* cc_user or delegate of the responsible of one of the courses
RECURSIVE Appended_global(_, _)
Appended_global(courses, recipient_groups) ==
    IF courses = <<>> THEN <<>>
    ELSE LET course == Head(courses)
             recipients ==
                 recipient_list_for_course(course, recipient_groups)
             kept ==
                 SelectSeq(recipients,
                           LAMBDA user :
                               \A c \in course_set :
                                   is_addressed(user,
                                                responsible_contributor(c)))
         IN [i \in DOMAIN kept |-> [user |-> kept[i], course |-> course]]
            \o Appended_global(Tail(courses), recipient_groups)

\* The loops of lines 800 to 804: the (user, course) pairs in the order
\* in which the course is appended to the list of the user
RECURSIVE Appended(_, _)
Appended(courses, recipient_groups) ==
    IF courses = <<>> THEN <<>>
    ELSE LET course == Head(courses)
             responsible == responsible_contributor(course)
             recipients ==
                 recipient_list_for_course(course, recipient_groups)
             kept ==
                 SelectSeq(recipients,
                           LAMBDA user : is_addressed(user, responsible))
         IN [i \in DOMAIN kept |-> [user |-> kept[i], course |-> course]]
            \o Appended(Tail(courses), recipient_groups)

\* user_course_map after the loops: a key per user, holding the courses
\* appended for the user.
user_course_map(courses, recipient_groups) ==
    LET appended == Appended(courses, recipient_groups)
    IN [user \in {appended[i].user : i \in DOMAIN appended} |->
           LET mine == SelectSeq(appended, LAMBDA x : x.user = user)
           IN [i \in DOMAIN mine |-> mine[i].course]]

\* EmailTemplate.send_to_users_in_courses: the map, and the messages of
\* the send_to_user of each of its items.
SendToUsersInCourses(courses, recipient_groups) ==
    /\ LET map == user_course_map(courses, recipient_groups) IN
         outbox' = [op |-> "send_to_users_in_courses",
                    courses |-> courses,
                    recipient_groups |-> recipient_groups,
                    user_course_map |-> map,
                    mails |-> UNION {send_to_user(user, map[user], TRUE) :
                                        user \in DOMAIN map}]
    /\ UNCHANGED <<course_set, courseVars, liveVars, archiveVars, last,
                   contributions, general, userVars, saving, reviewing>>

\* The pairs (u, v) with v in the relation r of u
Ties(r) == {pair \in Profiles \X Profiles : pair[2] \in r[pair[1]]}

\* The courses of a semester with any contributions and participants, none
\* of whom has voted yet, and users with any addresses and with up to
\* MaxTies delegates and cc_users between them
InitNotify ==
    /\ course_set = Courses
    /\ state = [c \in Courses |-> "inEvaluation"]
    /\ contributions \in [Courses -> ContributionSets]
    /\ participants \in [Courses -> SUBSET Profiles]
    /\ voters = [c \in Courses |-> {}]
    /\ participant_count = [c \in Courses |-> None]
    /\ voter_count = [c \in Courses |-> None]
    /\ textanswers = [c \in Courses |-> <<>>]
    /\ pc = "idle"
    /\ batch = <<>>
    /\ last = [op |-> "none", result |-> "none"]
    /\ general = [c \in Courses |-> 1]
    /\ email \in Emails
    /\ delegates \in Relations
    /\ cc_users \in Relations
    /\ staff = {}
    /\ Cardinality(Ties(delegates)) + Cardinality(Ties(cc_users)) <= MaxTies
    /\ saving = [p \in Savers |-> Idle]
    /\ reviewing = {}
    /\ outbox = [op |-> "none"]

\* A template is sent, once, for the courses of the semester
NextNotify ==
    /\ outbox.op = "none"
    /\ \E recipient_groups \in SUBSET RecipientGroups :
           SendToUsersInCourses(Ordered(course_set), recipient_groups)

SpecNotify == InitNotify /\ [][NextNotify]_vars

\* User u is charged course c in the map of the last call
Charged(u, c) ==
    /\ u \in DOMAIN outbox.user_course_map
    /\ c \in Range(outbox.user_course_map[u])

\* User u is a recipient of course c under the groups of the last call
IsRecipient(u, c) ==
    u \in Range(recipient_list_for_course(c, outbox.recipient_groups))

\* User u is a cc_user or a delegate of the responsible contributor of c
Informed(u, c) ==
    \E row \in contributions[c] :
        /\ row.responsible
        /\ u \in cc_users[row.contributor] \cup delegates[row.contributor]

\* C16: the map of send_to_users_in_courses holds user u with course c iff
\* c is one of the courses, u is in recipient_list_for_course of c, u has
\* an address and u is neither cc_user nor delegate of the responsible
\* contributor of c; a user is a key only with such a course.
C16_AggregationComplete ==
    outbox.op = "send_to_users_in_courses" =>
        /\ \A u \in Profiles, c \in Courses :
               Charged(u, c) <=>
                   /\ c \in Range(outbox.courses)
                   /\ IsRecipient(u, c)
                   /\ email[u] # ""
                   /\ ~Informed(u, c)
        /\ DOMAIN outbox.user_course_map \subseteq Profiles
        /\ \A u \in DOMAIN outbox.user_course_map :
               outbox.user_course_map[u] # <<>>

\* A user is charged both courses under one key while another recipient,
\* a delegate of the responsible contributor of a course, is not charged it.
C16_Witness ==
    /\ outbox.op = "send_to_users_in_courses"
    /\ \E u \in Profiles :
          \A c \in Courses : Charged(u, c)
    /\ \E u \in Profiles, c \in Courses :
          /\ IsRecipient(u, c)
          /\ email[u] # ""
          /\ Informed(u, c)
          /\ ~Charged(u, c)

\* C17: a recipient who is cc_user or delegate of the responsible
\* contributor of course B is not charged B, and is still charged any other
\* course A for which they are a recipient with no such tie to the
\* responsible contributor of A; a user without address is charged nothing.
C17_ExclusionPerCourse ==
    outbox.op = "send_to_users_in_courses" =>
        \A u \in Profiles :
            /\ email[u] = "" => \A c \in Courses : ~Charged(u, c)
            /\ \A A \in Courses : \A B \in Courses \ {A} :
                   /\ Informed(u, B) => ~Charged(u, B)
                   /\ (/\ Informed(u, B)
                       /\ IsRecipient(u, A)
                       /\ ~Informed(u, A)
                       /\ email[u] # "") => Charged(u, A)

\* A recipient of courses A and B who is cc_user or delegate of the
\* responsible contributor of B only: charged A, not B.
C17_Witness ==
    /\ outbox.op = "send_to_users_in_courses"
    /\ \E u \in Profiles, A \in Courses, B \in Courses :
          /\ A # B
          /\ IsRecipient(u, A) /\ IsRecipient(u, B)
          /\ Informed(u, B) /\ ~Informed(u, A)
          /\ Charged(u, A) /\ ~Charged(u, B)

\* ------------------------------------------------------ what staff may do
\* can_staff_edit without the test of is_archived
can_staff_edit_anyArchive(c) ==
    IF is_archived(c) = "AssertionError" THEN "AssertionError"
    ELSE IF state[c] \in {"new", "prepared", "lecturerApproved", "approved",
                          "inEvaluation"}
         THEN "True" ELSE "False"

\* Course.can_staff_edit; the AssertionError of is_archived passes through
can_staff_edit(c) ==
    IF is_archived(c) = "AssertionError" THEN "AssertionError"
    ELSE IF /\ is_archived(c) = "False"
            /\ state[c] \in {"new", "prepared", "lecturerApproved",
                             "approved", "inEvaluation"}
         THEN "True" ELSE "False"

\* Course.can_staff_delete
can_staff_delete(c) ==
    IF can_staff_edit(c) = "AssertionError" THEN "AssertionError"
    ELSE IF can_staff_edit(c) = "True" /\ ~(num_voters(c) > 0)
         THEN "True" ELSE "False"

\* The voters recorded for course c: the frozen count of an archived
\* course, the voters of the relation otherwise
RecordedVoters(c) ==
    IF Frozen(c) THEN voter_count[c] ELSE Cardinality(voters[c])

\* C20: can_staff_edit is true iff the course is not archived and its state
\* is one of new, prepared, lecturerApproved, approved, inEvaluation;
\* can_staff_delete is true iff can_staff_edit is and the course has zero
\* recorded voters; so a course with a recorded voter, an archived course
\* and a course in evaluated, reviewed or published is never deletable.
C20_StaffEditDelete ==
    \A c \in course_set :
        /\ can_staff_edit(c) \in {"True", "False"}
        /\ can_staff_delete(c) \in {"True", "False"}
        /\ can_staff_edit(c) = "True" <=>
               /\ ~Frozen(c)
               /\ state[c] \in {"new", "prepared", "lecturerApproved",
                                "approved", "inEvaluation"}
        /\ can_staff_delete(c) = "True" <=>
               /\ can_staff_edit(c) = "True"
               /\ RecordedVoters(c) = 0
        /\ (\/ RecordedVoters(c) >= 1
            \/ Frozen(c)
            \/ state[c] \in {"evaluated", "reviewed", "published"})
               => can_staff_delete(c) = "False"

\* A course in evaluation that is not archived and has a voter: staff can
\* edit it and cannot delete it.
C20_Witness ==
    \E c \in course_set :
        /\ state[c] = "inEvaluation"
        /\ ~Frozen(c)
        /\ RecordedVoters(c) >= 1
        /\ can_staff_edit(c) = "True"
        /\ can_staff_delete(c) = "False"

\* ------------------------------------------------- who may see the results
\* UserProfile.is_staff
is_staff(u) == u \in staff

\* Course.is_user_contributor
is_user_contributor(c, u) == \E row \in contributions[c] : row.contributor = u

\* user.represented_users: the users that have u among their delegates
represented_users(u) == {v \in Profiles : u \in delegates[v]}

\* Course.is_user_contributor_or_delegate
is_user_contributor_or_delegate(c, u) ==
    IF is_user_contributor(c, u) THEN TRUE
    ELSE \E row \in contributions[c] : row.contributor \in represented_users(u)

\* Course.can_user_see_results.  "or" evaluates can_publish_grades first:
\* its ZeroDivisionError leaves can_user_see_results, and only its False
\* lets is_user_contributor_or_delegate decide.
can_user_see_results(c, u, min_count, pct) ==
    IF is_staff(u) THEN "True"
    ELSE IF state[c] = "published"
    THEN LET quorum == can_publish_grades(c, min_count, pct) IN
           IF quorum = "True" THEN "True"
           ELSE IF quorum = "ZeroDivisionError" THEN quorum
           ELSE IF is_user_contributor_or_delegate(c, u) THEN "True"
           ELSE "False"
    ELSE "False"

\* can_user_see_results is evaluated for user u on course c under the
\* configured thresholds.
CanUserSeeResults(c, u, min_count, pct) ==
    /\ c \in course_set
    /\ last' = [op |-> "can_user_see_results",
                result |-> can_user_see_results(c, u, min_count, pct),
                user |-> u,
                MIN_ANSWER_COUNT |-> min_count,
                MIN_ANSWER_PERCENTAGE |-> pct]
    /\ UNCHANGED <<course_set, courseVars, liveVars, archiveVars,
                   contributions, general, userVars, callVars>>

\* One course in any state with any contributions, participants and voters
\* among them, and users of whom any are staff and any are delegates
InitResults ==
    /\ course_set = {TheCourse}
    /\ \E st \in States :
           state = [c \in Courses |-> IF c = TheCourse THEN st ELSE "new"]
    /\ \E rows \in ContributionSets :
           contributions =
               [c \in Courses |-> IF c = TheCourse THEN rows ELSE {}]
    /\ \E P \in SUBSET Profiles : \E V \in SUBSET P :
           /\ participants =
                  [c \in Courses |-> IF c = TheCourse THEN P ELSE {}]
           /\ voters = [c \in Courses |-> IF c = TheCourse THEN V ELSE {}]
    /\ participant_count = [c \in Courses |-> None]
    /\ voter_count = [c \in Courses |-> None]
    /\ textanswers = [c \in Courses |-> <<>>]
    /\ pc = "idle"
    /\ batch = <<>>
    /\ last = [op |-> "none", result |-> "none"]
    /\ general = [c \in Courses |-> IF c = TheCourse THEN 1 ELSE 0]
    /\ email = [u \in Profiles |-> ""]
    /\ delegates \in Relations
    /\ cc_users = [u \in Profiles |-> {}]
    /\ staff \in SUBSET Profiles
    /\ saving = [p \in Savers |-> Idle]
    /\ reviewing = {}
    /\ outbox = [op |-> "none"]

\* One user asks, once, for the results of the course
NextResults ==
    /\ last.op = "none"
    /\ \E u \in Profiles, min_count \in AnswerCounts, pct \in Percentages :
           CanUserSeeResults(TheCourse, u, min_count, pct)

SpecResults == InitResults /\ [][NextResults]_vars

\* C21: can_user_see_results is true for a staff user in every state; for
\* a user who is not staff it is true iff the course is published and the
\* quorum can_publish_grades holds or the user is a contributor of the
\* course or a delegate of one of its contributors.
C21_SeeResults ==
    last.op = "can_user_see_results" =>
        LET c == TheCourse
            u == last.user
            quorum == can_publish_grades(c, last.MIN_ANSWER_COUNT,
                                         last.MIN_ANSWER_PERCENTAGE)
        IN last.result = "True" <=>
               \/ u \in staff
               \/ /\ state[c] = "published"
                  /\ \/ quorum = "True"
                     \/ \E row \in contributions[c] :
                           \/ row.contributor = u
                           \/ u \in delegates[row.contributor]

\* ------------------------------------------------- the state students see
\* STUDENT_STATES_NAMES without an entry for reviewed
STUDENT_STATES_NAMES_noReviewed ==
    [new |-> "upcoming", prepared |-> "upcoming",
     lecturerApproved |-> "upcoming", approved |-> "upcoming",
     inEvaluation |-> "inEvaluation", evaluated |-> "evaluationFinished",
     published |-> "published"]

\* The dictionary STUDENT_STATES_NAMES
STUDENT_STATES_NAMES ==
    [new |-> "upcoming", prepared |-> "upcoming",
     lecturerApproved |-> "upcoming", approved |-> "upcoming",
     inEvaluation |-> "inEvaluation", evaluated |-> "evaluationFinished",
     reviewed |-> "evaluationFinished", published |-> "published"]

\* Course.student_state: the lookup raises KeyError on a state that is not
\* a key of the dictionary.
student_state(c) ==
    IF state[c] \in DOMAIN STUDENT_STATES_NAMES
    THEN STUDENT_STATES_NAMES[state[c]]
    ELSE "KeyError"

\* C22: student_state is defined in every state a course reaches through
\* the transitions, and is upcoming for new, prepared, lecturerApproved
\* and approved, inEvaluation for inEvaluation, evaluationFinished for
\* evaluated and reviewed, and published for published.
C22_StudentState ==
    \A c \in course_set :
        /\ student_state(c) \in
               {"upcoming", "inEvaluation", "evaluationFinished", "published"}
        /\ student_state(c) = "upcoming" <=>
               state[c] \in {"new", "prepared", "lecturerApproved", "approved"}
        /\ student_state(c) = "inEvaluation" <=> state[c] = "inEvaluation"
        /\ student_state(c) = "evaluationFinished" <=>
               state[c] \in {"evaluated", "reviewed"}
        /\ student_state(c) = "published" <=> state[c] = "published"

\* A course that went through review_finished is reviewed, and students see
\* evaluationFinished.
C22_Witness ==
    \E c \in course_set :
        /\ last = [op |-> "review_finished", result |-> "ok"]
        /\ state[c] = "reviewed"
        /\ student_state(c) = "evaluationFinished"

\* ------------------------------------------------- the transition graph
\* Every state is a source of some transition
NoTerminalState == \A s \in States : \E t \in Transitions : s \in Source(t)

\* Course c, once it has left state s, is never in s again
NeverReentered(c, s) ==
    [](state[c] = s => [](state[c] # s => [](state[c] # s)))

\* The states that follow state s in the graph of the transitions
Successors(s) == {Target(t) : t \in {u \in Transitions : s \in Source(u)}}

RECURSIVE Reachable(_)
\* The states reached from the states of S by zero or more transitions
Reachable(S) ==
    LET N == S \cup UNION {Successors(s) : s \in S} IN
      IF N = S THEN S ELSE Reachable(N)

\* State a can be re-entered after it has been left for state b
CanReenter(a, b) == a # b /\ a \in Reachable({b})

\* C23 as stated: no state is terminal, and no course leaves a state for
\* one from which the state it left can be entered again, other than
\* between published and reviewed.
C23_AcyclicExceptTop ==
    /\ NoTerminalState
    /\ [][\A c \in Courses :
             CanReenter(state[c], state'[c])
                 => {state[c], state'[c]} = {"published", "reviewed"}]_vars

\* C23 as amended: no state is terminal; a course leaves a state for one
\* from which the state it left can be entered again only among new,
\* prepared and lecturerApproved and between published and reviewed; it
\* re-enters none of approved, inEvaluation and evaluated after it has left
\* it, and once it is out of new, prepared and lecturerApproved it stays
\* out of them.
C23_AcyclicFromApproved ==
    /\ NoTerminalState
    /\ [][\A c \in Courses :
             CanReenter(state[c], state'[c])
                 => \/ {state[c], state'[c]} \subseteq
                            {"new", "prepared", "lecturerApproved"}
                    \/ {state[c], state'[c]} = {"published", "reviewed"}]_vars
    /\ \A c \in Courses :
          /\ \A s \in {"approved", "inEvaluation", "evaluated"} :
                NeverReentered(c, s)
          /\ [](state[c] \notin {"new", "prepared", "lecturerApproved"}
                => [](state[c] \notin {"new", "prepared", "lecturerApproved"}))

\* The only course of the semester is new after a transition on it that
\* succeeded: revert_to_new took it back from prepared.
C23_Witness ==
    /\ course_set = {TheCourse}
    /\ state[TheCourse] = "new"
    /\ last = [op |-> "transition", result |-> "ok"]

\* C24: send_to_users_in_courses sends one message to each recipient of
\* its map, and the list of courses of a recipient holds each course at
\* most once, also for a recipient who is in the list of a course under
\* several of the groups.
C24_OneMessageCoursesOnce ==
    outbox.op = "send_to_users_in_courses" =>
        /\ Cardinality(outbox.mails) = Cardinality(DOMAIN outbox.user_course_map)
        /\ \A u \in DOMAIN outbox.user_course_map :
               /\ Cardinality({m \in outbox.mails : m.to = <<email[u]>>}) = 1
               /\ \A c \in Courses :
                      Occurrences(c, outbox.user_course_map[u]) <= 1

\* ------------------------------------------------------- frame conditions
\* C25: a step of an archival, Course._archive or Semester.archive, that
\* succeeds or fails, leaves the lifecycle state of every course as it was;
\* a lifecycle transition, successful or failed, leaves the frozen
\* participant and voter counts of every course as they were.
C25_Frame ==
    [][/\ (SemesterArchive \/ \E c \in Courses : CourseArchive(c))
           => state' = state
       /\ (\E c \in Courses, t \in Transitions : Transition(c, t))
           => /\ participant_count' = participant_count
              /\ voter_count' = voter_count]_vars

\* ------------------------------------------------ the order of the lifecycle
\* Course c comes into each state of the second half of the lifecycle from
\* the state before it: into inEvaluation from approved, into evaluated
\* from inEvaluation, into reviewed from evaluated or back from published,
\* into published from reviewed.  As every course starts in new, a
\* published course has been approved, inEvaluation, evaluated and
\* reviewed, in this order.
EnteredInOrder(c) ==
    /\ state[c] # "inEvaluation" /\ state'[c] = "inEvaluation"
          => state[c] = "approved"
    /\ state[c] # "evaluated" /\ state'[c] = "evaluated"
          => state[c] = "inEvaluation"
    /\ state[c] # "reviewed" /\ state'[c] = "reviewed"
          => state[c] \in {"evaluated", "published"}
    /\ state[c] # "published" /\ state'[c] = "published"
          => state[c] = "reviewed"

\* Course c comes from evaluated into reviewed, as it does the first time,
\* with no unchecked text answer
ReviewedWhenChecked(c) ==
    state[c] = "evaluated" /\ state'[c] = "reviewed"
        => ~HasUnchecked(c) /\ ~HasUnchecked(c)'

\* Course c, once in inEvaluation, is never again in a state before it
NeverBackBeforeEvaluation(c) ==
    [](state[c] = "inEvaluation"
         => [](state[c] \notin {"new", "prepared", "lecturerApproved",
                                "approved"}))

\* C26: every course starts in new; a course is published only after it
\* has been approved, then inEvaluation, then evaluated, then reviewed; it
\* first became reviewed at a moment when it had no unchecked text answer;
\* and after it has been inEvaluation it is never again new, prepared,
\* lecturerApproved or approved.
C26_LifecycleOrder ==
    /\ \A c \in Courses : state[c] = "new"
    /\ [][\A c \in Courses : EnteredInOrder(c) /\ ReviewedWhenChecked(c)]_vars
    /\ \A c \in Courses : NeverBackBeforeEvaluation(c)

\* ------------------------------------------------ archived courses' states
\* C27: in every reachable state, a course that is archived is in state new
\* or published: no lifecycle transition that follows the archival takes an
\* archived course to a state in which it would not have been archiveable.
C27_ArchivedNewOrPublished ==
    \A c \in course_set : Frozen(c) => state[c] \in {"new", "published"}

====
